---- MODULE Spec2Model ----
(***************************************************************************)
(* A model of wasabi/util.py: the terminal presentation helpers color,     *)
(* wrap, diff_strings, locale_escape and supports_ansi.                    *)
(*                                                                         *)
(* A Python string is a sequence of characters; a character is a one-      *)
(* character TLA+ string, and ESC stands for "\x1b".  For locale_escape a   *)
(* string is a sequence of code points and a byte string a sequence of     *)
(* integers 0..255.  A Python value that may be None, an int or a str is a *)
(* record [t, n, s].  Every function is one call: Init draws the arguments *)
(* and the environment, the actions run the function's code.               *)
(***************************************************************************)
EXTENDS Integers, Sequences, FiniteSets, TLC

VARIABLES
    pc,            \* position of the call in progress
    \* color(text, fg, bg, bold, underline)
    text, fg, bg, bold, underline, color_result,
    \* diff_strings(a, b, fg, bg, add_symbols)
    a, b, diff_fg, diff_bg, add_symbols, opcodes, op_next, output, emitted,
    diff_result,
    \* wrap(text, wrap_max, indent)
    wrap_text, wrap_max, indent, wrap_result,
    \* supports_ansi() and the Windows console
    env_disabled, platform, ansicon, stdout_fd, is_console, set_outcome,
    console_mode, console_mode0, flags, n_get, n_set, ansi_result,
    \* locale_escape(string, errors), called twice
    ENCODING, errors, string, escaped, escaped_twice

colorVars == <<text, fg, bg, bold, underline, color_result>>
diffVars == <<a, b, diff_fg, diff_bg, add_symbols, opcodes, op_next, output, emitted,
             diff_result>>
wrapVars == <<wrap_text, wrap_max, indent, wrap_result>>
ansiVars == <<env_disabled, platform, ansicon, stdout_fd, is_console, set_outcome,
              console_mode, console_mode0, flags, n_get, n_set, ansi_result>>
escVars == <<ENCODING, errors, string, escaped, escaped_twice>>
vars == <<pc, colorVars, diffVars, wrapVars, ansiVars, escVars>>

(***************************************************************************)
(* Bounds of the model.                                                    *)
(***************************************************************************)
\* color: the integer colour identifiers tried are -1 .. MaxColorInt
MaxColorInt == 257
\* diff_strings: a and b are joined from at most MaxLines lines
MaxLines == 3
\* wrap: the text has at most MaxTextLen characters
MaxTextLen == 4
\* wrap: wrap_max ranges over 0 .. MaxWrapMax, indent over 0 .. MaxIndent
MaxWrapMax == 5
MaxIndent == 2
\* locale_escape: the string has at most MaxStringLen code points
MaxStringLen == 3

(***************************************************************************)
(* Strings.                                                                *)
(***************************************************************************)
ESC == "ESC"
NL == "\n"

RECURSIVE Concat(_)
\* "".join(parts)
Concat(parts) ==
    IF parts = <<>> THEN <<>> ELSE Head(parts) \o Concat(Tail(parts))

RECURSIVE Join(_, _)
\* sep.join(parts)
Join(sep, parts) ==
    IF parts = <<>> THEN <<>>
    ELSE IF Len(parts) = 1 THEN parts[1]
    ELSE parts[1] \o sep \o Join(sep, Tail(parts))

\* s.split(c), c one character: the pieces between the occurrences of c
Split(s, c) ==
    LET seps == { i \in 1..Len(s) : s[i] = c }
        n == Cardinality(seps)
        \* the position of the k-th occurrence; 0 before the first piece and
        \* Len(s) + 1 after the last
        sep(k) == IF k = 0 THEN 0
                  ELSE IF k = n + 1 THEN Len(s) + 1
                  ELSE CHOOSE i \in seps :
                           Cardinality({ j \in seps : j < i }) = k - 1
    IN [k \in 1..(n + 1) |-> SubSeq(s, sep(k - 1) + 1, sep(k) - 1)]

\* s.startswith(p), s.endswith(p), p in s
StartsWith(s, p) == Len(p) <= Len(s) /\ SubSeq(s, 1, Len(p)) = p
EndsWith(s, p) == Len(p) <= Len(s) /\ SubSeq(s, Len(s) - Len(p) + 1, Len(s)) = p
Contains(s, p) ==
    \E i \in 0..(Len(s) - Len(p)) : SubSeq(s, i + 1, i + Len(p)) = p

\* n * " "
Spaces(n) == [i \in 1..(IF n > 0 THEN n ELSE 0) |-> " "]

DigitChar(d) == <<"0", "1", "2", "3", "4", "5", "6", "7", "8", "9">>[d + 1]

RECURSIVE Digits(_)
Digits(n) == IF n < 10 THEN <<DigitChar(n)>>
             ELSE Append(Digits(n \div 10), DigitChar(n % 10))

\* str(n) of an int
IntStr(n) == IF n < 0 THEN <<"-">> \o Digits(0 - n) ELSE Digits(n)

(***************************************************************************)
(* Python values: None, an int, a str.                                     *)
(***************************************************************************)
None == [t |-> "none", n |-> 0, s |-> <<>>]
IntV(n) == [t |-> "int", n |-> n, s |-> <<>>]
StrV(s) == [t |-> "str", n |-> 0, s |-> s]

\* bool(v)
Truthy(v) == CASE v.t = "none" -> FALSE
               [] v.t = "int" -> v.n # 0
               [] OTHER -> v.s # <<>>

\* "{}".format(v)
Format(v) == CASE v.t = "none" -> <<"N", "o", "n", "e">>
               [] v.t = "int" -> IntStr(v.n)
               [] OTHER -> v.s

\* to_string: a str is returned as it is, anything else through str()
to_string(v) == IF v.t # "str" THEN StrV(Format(v)) ELSE v

(***************************************************************************)
(* color                                                                   *)
(***************************************************************************)
COLORS ==
    { <<<<"g", "o", "o", "d">>, 2>>, <<<<"f", "a", "i", "l">>, 1>>,
      <<<<"w", "a", "r", "n">>, 3>>, <<<<"i", "n", "f", "o">>, 4>>,
      <<<<"r", "e", "d">>, 1>>, <<<<"g", "r", "e", "e", "n">>, 2>>,
      <<<<"y", "e", "l", "l", "o", "w">>, 3>>, <<<<"b", "l", "u", "e">>, 4>>,
      <<<<"p", "i", "n", "k">>, 5>>, <<<<"c", "y", "a", "n">>, 6>>,
      <<<<"w", "h", "i", "t", "e">>, 7>>, <<<<"g", "r", "e", "y">>, 8>>,
      <<<<"b", "l", "a", "c", "k">>, 16>> }

\* COLORS.get(key, default)
COLORS_get(key, default) ==
    IF key.t = "str" /\ \E e \in COLORS : e[1] = key.s
    THEN IntV((CHOOSE e \in COLORS : e[1] = key.s)[2])
    ELSE default

\* color_styles with the foreground appended before bold and underline
color_styles_fg_first(rfg, rbg, bo, ul) ==
    (IF Truthy(rfg) THEN << <<"3", "8", ";", "5", ";">> \o Format(rfg) >> ELSE <<>>)
    \o (IF bo THEN << <<"1">> >> ELSE <<>>)
    \o (IF ul THEN << <<"4">> >> ELSE <<>>)
    \o (IF Truthy(rbg) THEN << <<"4", "8", ";", "5", ";">> \o Format(rbg) >> ELSE <<>>)

\* the styles list of color, after fg and bg are resolved
color_styles(rfg, rbg, bo, ul) ==
    (IF bo THEN << <<"1">> >> ELSE <<>>)
    \o (IF ul THEN << <<"4">> >> ELSE <<>>)
    \o (IF Truthy(rfg) THEN << <<"3", "8", ";", "5", ";">> \o Format(rfg) >> ELSE <<>>)
    \o (IF Truthy(rbg) THEN << <<"4", "8", ";", "5", ";">> \o Format(rbg) >> ELSE <<>>)

\* color_unstyled with underline counted: not any([fg, bg, bold, underline])
color_unstyled_any_style(rfg, rbg, bo, ul) ==
    ~(Truthy(rfg) \/ Truthy(rbg) \/ bo \/ ul)

\* the condition of the early return: not any([fg, bg, bold])
color_unstyled(rfg, rbg, bo, ul) == ~(Truthy(rfg) \/ Truthy(rbg) \/ bo)

color(txt, f, g, bo, ul) ==
    LET rfg == COLORS_get(f, f)
        rbg == COLORS_get(g, g)
    IN IF color_unstyled(rfg, rbg, bo, ul) THEN txt
       ELSE <<ESC, "[">> \o Join(<<";">>, color_styles(rfg, rbg, bo, ul)) \o <<"m">>
            \o txt \o <<ESC, "[", "0", "m">>

(***************************************************************************)
(* diff_strings, with difflib.SequenceMatcher(None, a, b).get_opcodes()    *)
(* as CPython computes it for sequences of fewer than 200 lines (no junk,  *)
(* no "popular" lines).  Indices are Python's: a[lo:hi] is                 *)
(* SubSeq(a, lo + 1, hi).                                                  *)
(***************************************************************************)
INSERT_SYMBOL == "+"
DELETE_SYMBOL == "-"

Slice(s, lo, hi) == SubSeq(s, lo + 1, hi)

RECURSIVE MatchLen(_, _, _, _, _, _)
\* the length of the longest common run starting at A[i], B[j] inside
\* A[i:ahi], B[j:bhi]
MatchLen(A, B, i, ahi, j, bhi) ==
    IF i < ahi /\ j < bhi /\ A[i + 1] = B[j + 1]
    THEN 1 + MatchLen(A, B, i + 1, ahi, j + 1, bhi)
    ELSE 0

\* SequenceMatcher.find_longest_match: of the longest matching blocks the one
\* that starts earliest in a and, of those, earliest in b; (alo, blo, 0)
\* when nothing matches
find_longest_match(A, B, alo, ahi, blo, bhi) ==
    LET cand == { <<i, j, MatchLen(A, B, i, ahi, j, bhi)>> :
                      i \in alo..(ahi - 1), j \in blo..(bhi - 1) }
        good == { c \in cand : c[3] > 0 }
    IN IF good = {} THEN <<alo, blo, 0>>
       ELSE CHOOSE c \in good :
              \A d \in good :
                 \/ c[3] > d[3]
                 \/ c[3] = d[3] /\ c[1] < d[1]
                 \/ c[3] = d[3] /\ c[1] = d[1] /\ c[2] <= d[2]

RECURSIVE matching_blocks_in(_, _, _, _, _, _)
\* the blocks get_matching_blocks collects from its queue, sorted
matching_blocks_in(A, B, alo, ahi, blo, bhi) ==
    LET x == find_longest_match(A, B, alo, ahi, blo, bhi)
        i == x[1]
        j == x[2]
        k == x[3]
    IN IF k = 0 THEN <<>>
       ELSE (IF alo < i /\ blo < j
             THEN matching_blocks_in(A, B, alo, i, blo, j) ELSE <<>>)
            \o <<x>>
            \o (IF i + k < ahi /\ j + k < bhi
                THEN matching_blocks_in(A, B, i + k, ahi, j + k, bhi) ELSE <<>>)

RECURSIVE non_adjacent(_, _)
\* the loop of get_matching_blocks that merges adjacent blocks; cur is
\* (i1, j1, k1)
non_adjacent(blocks, cur) ==
    IF blocks = <<>> THEN (IF cur[3] # 0 THEN <<cur>> ELSE <<>>)
    ELSE LET nxt == Head(blocks)
         IN IF cur[1] + cur[3] = nxt[1] /\ cur[2] + cur[3] = nxt[2]
            THEN non_adjacent(Tail(blocks), <<cur[1], cur[2], cur[3] + nxt[3]>>)
            ELSE (IF cur[3] # 0 THEN <<cur>> ELSE <<>>)
                 \o non_adjacent(Tail(blocks), nxt)

get_matching_blocks(A, B) ==
    non_adjacent(matching_blocks_in(A, B, 0, Len(A), 0, Len(B)), <<0, 0, 0>>)
    \o << <<Len(A), Len(B), 0>> >>

Opcode(tag, i1, i2, j1, j2) ==
    [tag |-> tag, a0 |-> i1, a1 |-> i2, b0 |-> j1, b1 |-> j2]

RECURSIVE opcodes_from_replace_as_delete(_, _, _)
\* opcodes_from with the tests in the wrong order: a gap in a is tagged
\* "delete" even when b has a gap too
opcodes_from_replace_as_delete(blocks, i, j) ==
    IF blocks = <<>> THEN <<>>
    ELSE LET ai == Head(blocks)[1]
             bj == Head(blocks)[2]
             size == Head(blocks)[3]
             tag == IF i < ai THEN "delete"
                    ELSE IF i < ai /\ j < bj THEN "replace"
                    ELSE IF j < bj THEN "insert"
                    ELSE ""
         IN (IF tag # "" THEN <<Opcode(tag, i, ai, j, bj)>> ELSE <<>>)
            \o (IF size # 0
                THEN <<Opcode("equal", ai, ai + size, bj, bj + size)>> ELSE <<>>)
            \o opcodes_from_replace_as_delete(Tail(blocks), ai + size, bj + size)

RECURSIVE opcodes_from(_, _, _)
\* the loop of get_opcodes over the matching blocks, from position (i, j)
opcodes_from(blocks, i, j) ==
    IF blocks = <<>> THEN <<>>
    ELSE LET ai == Head(blocks)[1]
             bj == Head(blocks)[2]
             size == Head(blocks)[3]
             tag == IF i < ai /\ j < bj THEN "replace"
                    ELSE IF i < ai THEN "delete"
                    ELSE IF j < bj THEN "insert"
                    ELSE ""
         IN (IF tag # "" THEN <<Opcode(tag, i, ai, j, bj)>> ELSE <<>>)
            \o (IF size # 0
                THEN <<Opcode("equal", ai, ai + size, bj, bj + size)>> ELSE <<>>)
            \o opcodes_from(Tail(blocks), ai + size, bj + size)

get_opcodes(A, B) == opcodes_from(get_matching_blocks(A, B), 0, 0)

\* "{} {}".format(symbol, item) if add_symbols else item
with_symbol(symbol, item, add) ==
    IF add THEN <<symbol, " ">> \o item ELSE item

\* render_equal with the unchanged lines padded to line up with the symbols
render_equal_padded(items) == [k \in 1..Len(items) |-> <<" ", " ">> \o items[k]]

\* what one opcode appends to output: the rendered lines
render_equal(items) == items
render_insert(items, f, g, add) ==
    [k \in 1..Len(items) |->
        color(with_symbol(INSERT_SYMBOL, items[k], add), f, g[1], FALSE, FALSE)]
render_delete(items, f, g, add) ==
    [k \in 1..Len(items) |->
        color(with_symbol(DELETE_SYMBOL, items[k], add), f, g[2], FALSE, FALSE)]

\* render_opcode with the two branches of the loop body swapped: deletions
\* before insertions
render_opcode_delete_first(op, A, B, f, g, add) ==
    (IF op.tag = "equal" THEN render_equal(Slice(A, op.a0, op.a1)) ELSE <<>>)
    \o (IF op.tag = "delete" \/ op.tag = "replace"
        THEN render_delete(Slice(A, op.a0, op.a1), f, g, add) ELSE <<>>)
    \o (IF op.tag = "insert" \/ op.tag = "replace"
        THEN render_insert(Slice(B, op.b0, op.b1), f, g, add) ELSE <<>>)

\* the body of the loop for one opcode
render_opcode(op, A, B, f, g, add) ==
    (IF op.tag = "equal" THEN render_equal(Slice(A, op.a0, op.a1)) ELSE <<>>)
    \o (IF op.tag = "insert" \/ op.tag = "replace"
        THEN render_insert(Slice(B, op.b0, op.b1), f, g, add) ELSE <<>>)
    \o (IF op.tag = "delete" \/ op.tag = "replace"
        THEN render_delete(Slice(A, op.a0, op.a1), f, g, add) ELSE <<>>)

\* the same lines unrendered, each with the branch that emitted it
Tagged(kind, items) == [k \in 1..Len(items) |-> [kind |-> kind, item |-> items[k]]]
emit_opcode(op, A, B) ==
    (IF op.tag = "equal" THEN Tagged("equal", Slice(A, op.a0, op.a1)) ELSE <<>>)
    \o (IF op.tag = "insert" \/ op.tag = "replace"
        THEN Tagged("insert", Slice(B, op.b0, op.b1)) ELSE <<>>)
    \o (IF op.tag = "delete" \/ op.tag = "replace"
        THEN Tagged("delete", Slice(A, op.a0, op.a1)) ELSE <<>>)

(***************************************************************************)
(* wrap, with textwrap.fill(text, width, initial_indent, subsequent_indent, *)
(* break_long_words=False, break_on_hyphens=False) as CPython computes it  *)
(* (expand_tabs, replace_whitespace and drop_whitespace at their defaults, *)
(* max_lines None).  A result is [exc, val]: the exception raised, or ""   *)
(* and the value returned.                                                 *)
(***************************************************************************)
Returned(v) == [exc |-> "", val |-> v]
Raised(e) == [exc |-> e, val |-> <<>>]

\* string.whitespace, of which the texts here use the space and the newline
Whitespace == {" ", NL, "\t", "\r"}

\* TextWrapper._munge_whitespace: every whitespace character becomes a space
munge_whitespace(s) ==
    [k \in 1..Len(s) |-> IF s[k] \in Whitespace THEN " " ELSE s[k]]

RECURSIVE split_chunks(_, _)
\* TextWrapper._split with wordsep_simple_re: the maximal runs of spaces and
\* of other characters, in order; cur is the run being read
split_chunks(s, cur) ==
    IF s = <<>> THEN (IF cur = <<>> THEN <<>> ELSE <<cur>>)
    ELSE IF cur = <<>> \/ (Head(s) = " ") = (cur[1] = " ")
         THEN split_chunks(Tail(s), Append(cur, Head(s)))
         ELSE <<cur>> \o split_chunks(Tail(s), <<Head(s)>>)

\* chunk.strip() == ''
IsBlank(chunk) == \A k \in 1..Len(chunk) : chunk[k] = " "

RECURSIVE take_fitting(_, _, _, _)
\* the inner loop of _wrap_chunks: chunks go on the line while they fit;
\* gives <<cur_line, chunks left>>
take_fitting(chunks, cur_line, cur_len, width) ==
    IF chunks # <<>> /\ cur_len + Len(Head(chunks)) <= width
    THEN take_fitting(Tail(chunks), Append(cur_line, Head(chunks)),
                      cur_len + Len(Head(chunks)), width)
    ELSE <<cur_line, chunks>>

\* handle_long_word without the test for an empty line
handle_long_word_always(chunks, cur_line) ==
    <<Append(cur_line, Head(chunks)), Tail(chunks)>>

\* _handle_long_word with break_long_words False: the word goes on the line
\* whole, and only when the line is empty; gives <<cur_line, chunks left>>
handle_long_word(chunks, cur_line) ==
    IF cur_line = <<>> THEN <<<<Head(chunks)>>, Tail(chunks)>>
    ELSE <<cur_line, chunks>>

\* the trailing blank chunk of a line is dropped
drop_trailing(cur_line) ==
    IF cur_line # <<>> /\ IsBlank(cur_line[Len(cur_line)])
    THEN SubSeq(cur_line, 1, Len(cur_line) - 1)
    ELSE cur_line

RECURSIVE wrap_chunks(_, _, _, _, _)
\* the outer loop of TextWrapper._wrap_chunks
wrap_chunks(chunks, lines, w, initial_indent, subsequent_indent) ==
    IF chunks = <<>> THEN lines
    ELSE LET ind == IF lines # <<>> THEN subsequent_indent ELSE initial_indent
             width == w - Len(ind)
             chunks1 == IF IsBlank(Head(chunks)) /\ lines # <<>>
                        THEN Tail(chunks) ELSE chunks
             fit == take_fitting(chunks1, <<>>, 0, width)
             long == IF fit[2] # <<>> /\ Len(Head(fit[2])) > width
                     THEN handle_long_word(fit[2], fit[1])
                     ELSE fit
             cur_line == drop_trailing(long[1])
         IN wrap_chunks(long[2],
                        IF cur_line # <<>>
                        THEN Append(lines, ind \o Concat(cur_line)) ELSE lines,
                        w, initial_indent, subsequent_indent)

\* textwrap.fill
textwrap_fill(s, w, initial_indent, subsequent_indent) ==
    IF w <= 0 THEN Raised("ValueError")
    ELSE Returned(Join(<<NL>>,
             wrap_chunks(split_chunks(munge_whitespace(s), <<>>), <<>>, w,
                         initial_indent, subsequent_indent)))

\* the width wrap hands to textwrap.fill
wrap_width(wmax, ind) == wmax - Len(Spaces(ind))

\* wrap without subsequent_indent=indent
wrap_first_line_only(v, wmax, ind) ==
    textwrap_fill(to_string(v).s, wrap_width(wmax, ind), Spaces(ind), <<>>)

wrap(v, wmax, ind) ==
    textwrap_fill(to_string(v).s, wrap_width(wmax, ind), Spaces(ind), Spaces(ind))

(***************************************************************************)
(* locale_escape: string.encode(ENCODING, errors).decode("utf8")           *)
(***************************************************************************)
\* the module's ENCODING is sys.stdout.encoding, or "ascii" without one
Encodings == {"ascii", "utf-8", "latin-1"}
ErrorPolicies == {"strict", "replace", "ignore"}

\* the UTF-8 bytes of one code point (no surrogates here)
utf8_bytes(cp) ==
    IF cp < 128 THEN <<cp>>
    ELSE IF cp < 2048 THEN <<192 + (cp \div 64), 128 + (cp % 64)>>
    ELSE IF cp < 65536
         THEN <<224 + (cp \div 4096), 128 + ((cp \div 64) % 64), 128 + (cp % 64)>>
    ELSE <<240 + (cp \div 262144), 128 + ((cp \div 4096) % 64),
           128 + ((cp \div 64) % 64), 128 + (cp % 64)>>

\* whether the codec has the code point
encodable(cp, enc) ==
    CASE enc = "ascii" -> cp < 128
      [] enc = "latin-1" -> cp < 256
      [] OTHER -> TRUE

encode_char(cp, enc) == IF enc = "utf-8" THEN utf8_bytes(cp) ELSE <<cp>>

RECURSIVE str_encode(_, _, _)
\* str.encode(enc, errs): "?" replaces, or nothing does, what the codec lacks
str_encode(s, enc, errs) ==
    IF s = <<>> THEN Returned(<<>>)
    ELSE LET rest == str_encode(Tail(s), enc, errs)
             here == IF encodable(Head(s), enc) THEN encode_char(Head(s), enc)
                     ELSE IF errs = "replace" THEN <<63>> ELSE <<>>
         IN IF ~encodable(Head(s), enc) /\ errs = "strict"
            THEN Raised("UnicodeEncodeError")
            ELSE IF rest.exc # "" THEN rest
            ELSE Returned(here \o rest.val)

IsCont(bs, k) == k <= Len(bs) /\ bs[k] >= 128 /\ bs[k] <= 191

RECURSIVE utf8_decode(_)
\* bytes.decode("utf8"), strict
utf8_decode(bs) ==
    IF bs = <<>> THEN Returned(<<>>)
    ELSE LET b0 == bs[1]
             n == IF b0 < 128 THEN 1
                  ELSE IF b0 >= 194 /\ b0 <= 223 /\ IsCont(bs, 2) THEN 2
                  ELSE IF b0 >= 224 /\ b0 <= 239 /\ IsCont(bs, 2) /\ IsCont(bs, 3)
                          /\ (b0 = 224 => bs[2] >= 160) /\ (b0 = 237 => bs[2] <= 159)
                       THEN 3
                  ELSE IF b0 >= 240 /\ b0 <= 244 /\ IsCont(bs, 2) /\ IsCont(bs, 3)
                          /\ IsCont(bs, 4)
                          /\ (b0 = 240 => bs[2] >= 144) /\ (b0 = 244 => bs[2] <= 143)
                       THEN 4
                  ELSE 0
             cp == CASE n = 1 -> b0
                     [] n = 2 -> (b0 - 192) * 64 + (bs[2] - 128)
                     [] n = 3 -> (b0 - 224) * 4096 + (bs[2] - 128) * 64 + (bs[3] - 128)
                     [] n = 4 -> (b0 - 240) * 262144 + (bs[2] - 128) * 4096
                                 + (bs[3] - 128) * 64 + (bs[4] - 128)
                     [] OTHER -> 0
         IN IF n = 0 THEN Raised("UnicodeDecodeError")
            ELSE LET rest == utf8_decode(SubSeq(bs, n + 1, Len(bs)))
                 IN IF rest.exc # "" THEN rest ELSE Returned(<<cp>> \o rest.val)

\* the codec of the decode step
decode_codec(enc) == "utf8"

bytes_decode(bs, codec) ==
    IF codec = "utf8" THEN utf8_decode(bs) ELSE Returned(bs)

locale_escape(s, enc, errs) ==
    LET encoded == str_encode(s, enc, errs)
    IN IF encoded.exc # "" THEN encoded
       ELSE bytes_decode(encoded.val, decode_codec(enc))

(***************************************************************************)
(* supports_ansi and _windows_console_supports_ansi                        *)
(***************************************************************************)
ENABLE_VIRTUAL_TERMINAL_PROCESSING == 4

\* flags & bit and flags | bit, bit a power of two
HasBit(f, bit) == (f \div bit) % 2 = 1
SetBit(f, bit) == IF HasBit(f, bit) THEN f ELSE f + bit

\* env_disabled_truthy as a comparison with "1"
env_disabled_is_one(v) == v.t = "str" /\ v.s = <<"1">>

\* os.getenv(ENV_ANSI_DISABLED) is truthy
env_disabled_truthy(v) == Truthy(v)

(***************************************************************************)
(* The calls.  A specification runs one function; the variables of the     *)
(* others keep their idle values.                                          *)
(***************************************************************************)
ColorIdle ==
    /\ text = <<>> /\ fg = None /\ bg = None /\ bold = FALSE /\ underline = FALSE
    /\ color_result = <<>>
DiffIdle ==
    /\ a = <<>> /\ b = <<>> /\ diff_fg = None /\ diff_bg = <<None, None>>
    /\ add_symbols = FALSE /\ opcodes = <<>> /\ op_next = 1 /\ output = <<>>
    /\ emitted = <<>> /\ diff_result = <<>>
WrapIdle ==
    /\ wrap_text = StrV(<<>>) /\ wrap_max = 80 /\ indent = 4
    /\ wrap_result = Returned(<<>>)
AnsiIdle ==
    /\ env_disabled = None /\ platform = "linux" /\ ansicon = FALSE
    /\ stdout_fd = TRUE /\ is_console = TRUE /\ set_outcome = "applied"
    /\ console_mode = 0 /\ console_mode0 = 0 /\ flags = 0
    /\ n_get = 0 /\ n_set = 0 /\ ansi_result = "none"
EscIdle ==
    /\ ENCODING = "ascii" /\ errors = "replace" /\ string = <<>>
    /\ escaped = Returned(<<>>) /\ escaped_twice = Returned(<<>>)

---------------------------------------------------------------------------
\* color
ColorTexts == {<<>>, <<"t">>, <<"t", "1">>}
ColorNames == {<<"r", "e", "d">>, <<"b", "l", "a", "c", "k">>, <<"f", "o", "o">>, <<>>}
ColorFew == {None, IntV(0)} \cup {StrV(nm) : nm \in ColorNames}
ColorInts == {IntV(n) : n \in (0 - 1)..MaxColorInt}

ColorInit ==
    /\ pc = "color"
    /\ text \in ColorTexts
    /\ \/ fg \in ColorInts \cup ColorFew /\ bg \in ColorFew
       \/ fg \in ColorFew /\ bg \in ColorInts
    /\ bold \in BOOLEAN /\ underline \in BOOLEAN
    /\ color_result = <<>>
    /\ DiffIdle /\ WrapIdle /\ AnsiIdle /\ EscIdle

\* the call returns text as it is (the early return)
ColorPlain ==
    /\ pc = "color"
    /\ color_unstyled(COLORS_get(fg, fg), COLORS_get(bg, bg), bold, underline)
    /\ color_result' = color(text, fg, bg, bold, underline)
    /\ pc' = "done"
    /\ UNCHANGED <<text, fg, bg, bold, underline, diffVars, wrapVars, ansiVars, escVars>>

\* the call returns the escape sequence around text
ColorStyled ==
    /\ pc = "color"
    /\ ~color_unstyled(COLORS_get(fg, fg), COLORS_get(bg, bg), bold, underline)
    /\ color_result' = color(text, fg, bg, bold, underline)
    /\ pc' = "done"
    /\ UNCHANGED <<text, fg, bg, bold, underline, diffVars, wrapVars, ansiVars, escVars>>

ColorNext == ColorPlain \/ ColorStyled
SpecColor == ColorInit /\ [][ColorNext]_vars

---------------------------------------------------------------------------
\* diff_strings
DiffLineValues == {<<>>, <<"x">>, <<"y">>, <<"z">>}
DiffLineSeqs == UNION {[1..k -> DiffLineValues] : k \in 0..MaxLines}
DiffTexts == {Join(<<NL>>, ls) : ls \in DiffLineSeqs}
Black == StrV(<<"b", "l", "a", "c", "k">>)
Green == StrV(<<"g", "r", "e", "e", "n">>)
Red == StrV(<<"r", "e", "d">>)
\* the defaults of fg and bg, and a call that leaves insertions unstyled
DiffStyles == {<<Black, <<Green, Red>>>>, <<None, <<IntV(0), IntV(9)>>>>}

\* a.split("\n") and b.split("\n")
ALines == Split(a, NL)
BLines == Split(b, NL)

DiffInit ==
    /\ pc = "diff"
    /\ a \in DiffTexts /\ b \in DiffTexts
    /\ \E st \in DiffStyles : diff_fg = st[1] /\ diff_bg = st[2]
    /\ add_symbols \in BOOLEAN
    /\ opcodes = <<>> /\ op_next = 1 /\ output = <<>> /\ emitted = <<>>
    /\ diff_result = <<>>
    /\ ColorIdle /\ WrapIdle /\ AnsiIdle /\ EscIdle

\* the split and matcher.get_opcodes()
DiffStart ==
    /\ pc = "diff"
    /\ opcodes' = get_opcodes(ALines, BLines)
    /\ pc' = "loop"
    /\ UNCHANGED <<a, b, diff_fg, diff_bg, add_symbols, op_next, output, emitted,
                   diff_result, colorVars, wrapVars, ansiVars, escVars>>

\* what an iteration of the loop leaves alone
DiffLoopFrame == UNCHANGED <<pc, a, b, diff_fg, diff_bg, add_symbols, opcodes,
                            diff_result, colorVars, wrapVars, ansiVars, escVars>>

\* one iteration of the loop: an "equal" opcode
EmitEqual ==
    /\ pc = "loop"
    /\ op_next <= Len(opcodes)
    /\ opcodes[op_next].tag = "equal"
    /\ output' = output \o render_opcode(opcodes[op_next], ALines, BLines,
                                        diff_fg, diff_bg, add_symbols)
    /\ emitted' = emitted \o emit_opcode(opcodes[op_next], ALines, BLines)
    /\ op_next' = op_next + 1
    /\ DiffLoopFrame

\* an "insert" opcode
EmitInsert ==
    /\ pc = "loop"
    /\ op_next <= Len(opcodes)
    /\ opcodes[op_next].tag = "insert"
    /\ output' = output \o render_opcode(opcodes[op_next], ALines, BLines,
                                        diff_fg, diff_bg, add_symbols)
    /\ emitted' = emitted \o emit_opcode(opcodes[op_next], ALines, BLines)
    /\ op_next' = op_next + 1
    /\ DiffLoopFrame

\* a "delete" opcode
EmitDelete ==
    /\ pc = "loop"
    /\ op_next <= Len(opcodes)
    /\ opcodes[op_next].tag = "delete"
    /\ output' = output \o render_opcode(opcodes[op_next], ALines, BLines,
                                        diff_fg, diff_bg, add_symbols)
    /\ emitted' = emitted \o emit_opcode(opcodes[op_next], ALines, BLines)
    /\ op_next' = op_next + 1
    /\ DiffLoopFrame

\* a "replace" opcode: both the insert and the delete branch run
EmitReplace ==
    /\ pc = "loop"
    /\ op_next <= Len(opcodes)
    /\ opcodes[op_next].tag = "replace"
    /\ output' = output \o render_opcode(opcodes[op_next], ALines, BLines,
                                        diff_fg, diff_bg, add_symbols)
    /\ emitted' = emitted \o emit_opcode(opcodes[op_next], ALines, BLines)
    /\ op_next' = op_next + 1
    /\ DiffLoopFrame

\* return "\n".join(output)
DiffJoin ==
    /\ pc = "loop"
    /\ op_next > Len(opcodes)
    /\ diff_result' = Join(<<NL>>, output)
    /\ pc' = "done"
    /\ UNCHANGED <<a, b, diff_fg, diff_bg, add_symbols, opcodes, op_next, output,
                   emitted, colorVars, wrapVars, ansiVars, escVars>>

DiffNext == DiffStart \/ EmitEqual \/ EmitInsert \/ EmitDelete \/ EmitReplace \/ DiffJoin
SpecDiff == DiffInit /\ [][DiffNext]_vars

---------------------------------------------------------------------------
\* wrap
WrapChars == {"a", "-", " ", NL}
WrapTexts == UNION {[1..k -> WrapChars] : k \in 0..MaxTextLen}
WrapValues == {StrV(s) : s \in WrapTexts} \cup {IntV(7), IntV(42)}

WrapInit ==
    /\ pc = "wrap"
    /\ wrap_text \in WrapValues
    /\ wrap_max \in 0..MaxWrapMax
    /\ indent \in 0..MaxIndent
    /\ wrap_result = Returned(<<>>)
    /\ ColorIdle /\ DiffIdle /\ AnsiIdle /\ EscIdle

\* the call returns the wrapped text
WrapReturns ==
    /\ pc = "wrap"
    /\ wrap(wrap_text, wrap_max, indent).exc = ""
    /\ wrap_result' = wrap(wrap_text, wrap_max, indent)
    /\ pc' = "done"
    /\ UNCHANGED <<wrap_text, wrap_max, indent, colorVars, diffVars, ansiVars, escVars>>

\* textwrap refuses the width
WrapRaises ==
    /\ pc = "wrap"
    /\ wrap(wrap_text, wrap_max, indent).exc # ""
    /\ wrap_result' = wrap(wrap_text, wrap_max, indent)
    /\ pc' = "raised"
    /\ UNCHANGED <<wrap_text, wrap_max, indent, colorVars, diffVars, ansiVars, escVars>>

WrapNext == WrapReturns \/ WrapRaises
SpecWrap == WrapInit /\ [][WrapNext]_vars

---------------------------------------------------------------------------
\* locale_escape, then locale_escape of its result
EscCodePoints == {65, 169, 195, 233, 8364}
EscTexts == UNION {[1..k -> EscCodePoints] : k \in 0..MaxStringLen}

EscInit ==
    /\ pc = "escape"
    /\ ENCODING \in Encodings
    /\ errors \in ErrorPolicies
    /\ string \in EscTexts
    /\ escaped = Returned(<<>>) /\ escaped_twice = Returned(<<>>)
    /\ ColorIdle /\ DiffIdle /\ WrapIdle /\ AnsiIdle

EscapeOnce ==
    /\ pc = "escape"
    /\ escaped' = locale_escape(string, ENCODING, errors)
    /\ pc' = IF escaped'.exc = "" THEN "escaped" ELSE "raised"
    /\ UNCHANGED <<ENCODING, errors, string, escaped_twice,
                   colorVars, diffVars, wrapVars, ansiVars>>

EscapeTwice ==
    /\ pc = "escaped"
    /\ escaped_twice' = locale_escape(escaped.val, ENCODING, errors)
    /\ pc' = IF escaped_twice'.exc = "" THEN "done" ELSE "raised"
    /\ UNCHANGED <<ENCODING, errors, string, escaped,
                   colorVars, diffVars, wrapVars, ansiVars>>

EscNext == EscapeOnce \/ EscapeTwice
SpecEscape == EscInit /\ [][EscNext]_vars

---------------------------------------------------------------------------
\* supports_ansi
Platforms == {"win32", "linux", "darwin"}
\* ANSI_COLORS_DISABLED: unset, set to "", to "1", to "0"
EnvValues == {None, StrV(<<>>), StrV(<<"1">>), StrV(<<"0">>)}
\* what SetConsoleMode does with the flag: the call fails, the console takes
\* the flag, or the call succeeds and the console does not keep the flag
SetOutcomes == {"fail", "applied", "ignored"}
ConsoleModes == 0..7

AnsiInit ==
    /\ pc = "ansi"
    /\ env_disabled \in EnvValues
    /\ platform \in Platforms
    /\ ansicon \in BOOLEAN
    /\ stdout_fd \in BOOLEAN
    /\ is_console \in BOOLEAN
    /\ set_outcome \in SetOutcomes
    /\ console_mode \in ConsoleModes
    /\ HasBit(console_mode, ENABLE_VIRTUAL_TERMINAL_PROCESSING) => set_outcome = "applied"
    /\ console_mode0 = console_mode
    /\ flags = 0 /\ n_get = 0 /\ n_set = 0
    /\ ansi_result = "none"
    /\ ColorIdle /\ DiffIdle /\ WrapIdle /\ EscIdle

AnsiFrame == UNCHANGED <<env_disabled, platform, ansicon, stdout_fd, is_console,
                         set_outcome, console_mode0,
                         colorVars, diffVars, wrapVars, escVars>>

\* if os.getenv(ENV_ANSI_DISABLED): return False
CheckDisabled ==
    /\ pc = "ansi"
    /\ IF env_disabled_truthy(env_disabled)
       THEN ansi_result' = "False" /\ pc' = "done"
       ELSE ansi_result' = ansi_result /\ pc' = "platform"
    /\ UNCHANGED <<console_mode, flags, n_get, n_set>>
    /\ AnsiFrame

\* if sys.platform == "win32": ... ; return True
CheckPlatform ==
    /\ pc = "platform"
    /\ IF platform = "win32"
       THEN ansi_result' = ansi_result /\ pc' = "ansicon"
       ELSE ansi_result' = "True" /\ pc' = "done"
    /\ UNCHANGED <<console_mode, flags, n_get, n_set>>
    /\ AnsiFrame

\* if "ANSICON" in os.environ: return True
CheckAnsicon ==
    /\ pc = "ansicon"
    /\ IF ansicon
       THEN ansi_result' = "True" /\ pc' = "done"
       ELSE ansi_result' = ansi_result /\ pc' = "handle"
    /\ UNCHANGED <<console_mode, flags, n_get, n_set>>
    /\ AnsiFrame

\* console = msvcrt.get_osfhandle(sys.stdout.fileno()), outside the try
GetHandle ==
    /\ pc = "handle"
    /\ IF stdout_fd
       THEN ansi_result' = ansi_result /\ pc' = "get"
       ELSE ansi_result' = "raised" /\ pc' = "done"
    /\ UNCHANGED <<console_mode, flags, n_get, n_set>>
    /\ AnsiFrame

\* flags = GetConsoleMode(console); an OSError is caught: return False
GetConsoleMode ==
    /\ pc = "get"
    /\ n_get' = n_get + 1
    /\ IF is_console
       THEN flags' = console_mode /\ ansi_result' = ansi_result /\ pc' = "set"
       ELSE flags' = flags /\ ansi_result' = "False" /\ pc' = "done"
    /\ UNCHANGED <<console_mode, n_set>>
    /\ AnsiFrame

\* SetConsoleMode(console, flags | ENABLE_VIRTUAL_TERMINAL_PROCESSING)
SetConsoleMode ==
    /\ pc = "set"
    /\ n_set' = n_set + 1
    /\ console_mode' = IF set_outcome = "applied"
                       THEN SetBit(flags, ENABLE_VIRTUAL_TERMINAL_PROCESSING)
                       ELSE console_mode
    /\ IF set_outcome = "fail"
       THEN ansi_result' = "False" /\ pc' = "done"
       ELSE ansi_result' = ansi_result /\ pc' = "check"
    /\ UNCHANGED <<flags, n_get>>
    /\ AnsiFrame

\* flags = GetConsoleMode(console); return whether the flag is set
CheckConsoleMode ==
    /\ pc = "check"
    /\ n_get' = n_get + 1
    /\ flags' = console_mode
    /\ ansi_result' = IF HasBit(flags', ENABLE_VIRTUAL_TERMINAL_PROCESSING)
                      THEN "True" ELSE "False"
    /\ pc' = "done"
    /\ UNCHANGED <<console_mode, n_set>>
    /\ AnsiFrame

AnsiNext ==
    \/ CheckDisabled \/ CheckPlatform \/ CheckAnsicon \/ GetHandle
    \/ GetConsoleMode \/ SetConsoleMode \/ CheckConsoleMode
SpecAnsi == AnsiInit /\ [][AnsiNext]_vars

---------------------------------------------------------------------------
Init == ColorInit \/ DiffInit \/ WrapInit \/ EscInit \/ AnsiInit
Next == ColorNext \/ DiffNext \/ WrapNext \/ EscNext \/ AnsiNext
Spec == Init /\ [][Next]_vars

(***************************************************************************)
(* Properties of diff_strings (under SpecDiff)                             *)
(***************************************************************************)
\* the unrendered lines of emitted that no branch of this kind put out, in
\* output order
ItemsNotOf(kind) ==
    LET kept == SelectSeq(emitted, LAMBDA e : e.kind # kind)
    IN [k \in 1..Len(kept) |-> kept[k].item]

\* the number of lines a branch of this kind put out
CountOf(kind) == Len(SelectSeq(emitted, LAMBDA e : e.kind = kind))

\* the number of lines an opcode puts out
OpLines(op) ==
    CASE op.tag = "equal" -> op.a1 - op.a0
      [] op.tag = "insert" -> op.b1 - op.b0
      [] op.tag = "delete" -> op.a1 - op.a0
      [] OTHER -> (op.b1 - op.b0) + (op.a1 - op.a0)

RECURSIVE OutputOffset(_)
\* the number of output lines before those of opcode k
OutputOffset(k) == IF k = 1 THEN 0 ELSE OutputOffset(k - 1) + OpLines(opcodes[k - 1])

\* C1: for a == b, diff_strings(a, b) returns a itself: every line comes from
\* an "equal" opcode, and the result holds no escape code and no "+ " or "- "
\* prefix, whatever fg, bg and add_symbols are.
C1_EqualInputsReturnA ==
    (pc = "done" /\ a = b) =>
        /\ diff_result = a
        /\ \A k \in DOMAIN emitted : emitted[k].kind = "equal"
        /\ \A k \in DOMAIN opcodes : opcodes[k].tag = "equal"
        /\ ~Contains(diff_result, <<ESC>>)
        /\ \A k \in DOMAIN output :
              /\ ~StartsWith(output[k], <<INSERT_SYMBOL, " ">>)
              /\ ~StartsWith(output[k], <<DELETE_SYMBOL, " ">>)

\* a call with a == b of several lines, add_symbols set and the default colours
C1_Witness ==
    /\ pc = "done" /\ a = b /\ Len(ALines) >= 2 /\ add_symbols
    /\ diff_fg = Black /\ diff_result = a

\* the result of diff_strings("x\ny", "x\nz", add_symbols=True)
C2_Example ==
    <<"x", NL,
      ESC, "[", "3", "8", ";", "5", ";", "1", "6", ";", "4", "8", ";", "5", ";", "2", "m",
      "+", " ", "z", ESC, "[", "0", "m", NL,
      ESC, "[", "3", "8", ";", "5", ";", "1", "6", ";", "4", "8", ";", "5", ";", "1", "m",
      "-", " ", "y", ESC, "[", "0", "m">>

\* C2: for every "replace" opcode the lines of b's range come first in the
\* output, styled as insertions (background bg[0]), then the lines of a's
\* range, styled as deletions (background bg[1]); "equal" lines are unstyled;
\* and diff_strings("x\ny", "x\nz", add_symbols=True) is C2_Example.
C2_ReplaceInsertsThenDeletes ==
    (pc = "done") =>
        /\ \A k \in DOMAIN opcodes :
             LET op == opcodes[k]
                 base == OutputOffset(k)
                 nb == op.b1 - op.b0
                 na == op.a1 - op.a0
             IN /\ op.tag = "replace" =>
                     /\ nb > 0 /\ na > 0
                     /\ \A m \in 1..nb :
                          /\ emitted[base + m].kind = "insert"
                          /\ output[base + m] =
                               color(with_symbol("+", BLines[op.b0 + m], add_symbols),
                                     diff_fg, diff_bg[1], FALSE, FALSE)
                     /\ \A m \in 1..na :
                          /\ emitted[base + nb + m].kind = "delete"
                          /\ output[base + nb + m] =
                               color(with_symbol("-", ALines[op.a0 + m], add_symbols),
                                     diff_fg, diff_bg[2], FALSE, FALSE)
                /\ op.tag = "equal" =>
                     \A m \in 1..na : output[base + m] = ALines[op.a0 + m]
        /\ (/\ a = <<"x", NL, "y">> /\ b = <<"x", NL, "z">> /\ add_symbols
            /\ diff_fg = Black /\ diff_bg = <<Green, Red>>)
           => diff_result = C2_Example

\* the call of the example, with its "replace" opcode
C2_Witness ==
    /\ pc = "done"
    /\ a = <<"x", NL, "y">> /\ b = <<"x", NL, "z">> /\ add_symbols
    /\ diff_fg = Black /\ diff_bg = <<Green, Red>>
    /\ \E k \in DOMAIN opcodes : opcodes[k].tag = "replace"
    /\ diff_result = C2_Example

\* C10: the opcodes partition both line sequences exactly, contiguously and
\* in order; the lines put out as equal or delete are, in order, the lines of
\* a, the lines put out as equal or insert are, in order, the lines of b, and
\* the output has |equal| + |inserted| + |deleted| lines.
C10_OpcodesPartitionBoth ==
    (pc = "done") =>
        /\ opcodes # <<>>
        /\ opcodes[1].a0 = 0 /\ opcodes[1].b0 = 0
        /\ opcodes[Len(opcodes)].a1 = Len(ALines)
        /\ opcodes[Len(opcodes)].b1 = Len(BLines)
        /\ \A k \in DOMAIN opcodes :
             /\ opcodes[k].a0 <= opcodes[k].a1 /\ opcodes[k].b0 <= opcodes[k].b1
             /\ k > 1 => /\ opcodes[k].a0 = opcodes[k - 1].a1
                         /\ opcodes[k].b0 = opcodes[k - 1].b1
        /\ ItemsNotOf("insert") = ALines
        /\ ItemsNotOf("delete") = BLines
        /\ Len(output) = Len(emitted)
        /\ Len(output) = CountOf("equal") + CountOf("insert") + CountOf("delete")
        /\ Len(Split(diff_result, NL)) = Len(output)

\* a diff with an equal, an inserted and a deleted line
C10_Witness ==
    /\ pc = "done"
    /\ \E k \in DOMAIN emitted : emitted[k].kind = "equal"
    /\ \E k \in DOMAIN emitted : emitted[k].kind = "insert"
    /\ \E k \in DOMAIN emitted : emitted[k].kind = "delete"
    /\ Len(opcodes) >= 3

(***************************************************************************)
(* Properties of color (under SpecColor)                                   *)
(***************************************************************************)
\* fg, bg or bold is truthy once the names are resolved
AnyStyle ==
    Truthy(COLORS_get(fg, fg)) \/ Truthy(COLORS_get(bg, bg)) \/ bold

\* C3: color returns text unchanged exactly when none of fg, bg, bold is
\* truthy after name resolution, so also when underline is the only style
\* asked for; when one of them is truthy the result starts with ESC[ and
\* ends with ESC[0m.
C3_UnchangedIffNoStyle ==
    (pc = "done") =>
        /\ (color_result = text) <=> ~AnyStyle
        /\ AnyStyle => /\ StartsWith(color_result, <<ESC, "[">>)
                       /\ EndsWith(color_result, <<ESC, "[", "0", "m">>)

\* underline alone: the text comes back as it is
C3_Witness ==
    /\ pc = "done" /\ underline /\ ~bold /\ fg = None /\ bg = None
    /\ text = <<"t">> /\ color_result = text

\* the number a colour identifier resolves to, as text
ColorNumber(v) ==
    CASE v.t = "int" -> IntStr(v.n)
      [] v = Red -> <<"1">>
      [] v = Black -> <<"1", "6">>
      [] OTHER -> v.s

\* C4: when color emits formatting the result is ESC[ S m text ESC[0m, S the
\* ";"-join of the styles asked for in the order bold "1", underline "4",
\* foreground "38;5;n", background "48;5;n", a name resolved through COLORS;
\* color(t, fg="red", bold=True) is ESC[1;38;5;1m t ESC[0m.
C4_EscapeSequenceFormat ==
    (pc = "done" /\ AnyStyle) =>
        /\ LET parts == <<IF bold THEN <<"1">> ELSE <<>>,
                          IF underline THEN <<"4">> ELSE <<>>,
                          IF Truthy(fg) THEN <<"3", "8", ";", "5", ";">> \o ColorNumber(fg)
                          ELSE <<>>,
                          IF Truthy(bg) THEN <<"4", "8", ";", "5", ";">> \o ColorNumber(bg)
                          ELSE <<>> >>
               S == Join(<<";">>, SelectSeq(parts, LAMBDA x : x # <<>>))
           IN color_result = <<ESC, "[">> \o S \o <<"m">> \o text \o <<ESC, "[", "0", "m">>
        /\ (fg = Red /\ bold /\ ~underline /\ bg = None) =>
              color_result = <<ESC, "[", "1", ";", "3", "8", ";", "5", ";", "1", "m">>
                             \o text \o <<ESC, "[", "0", "m">>

\* color("t", fg="red", bold=True)
C4_Witness ==
    /\ pc = "done" /\ fg = Red /\ bold /\ ~underline /\ bg = None /\ text = <<"t">>
    /\ color_result = <<ESC, "[", "1", ";", "3", "8", ";", "5", ";", "1", "m", "t",
                        ESC, "[", "0", "m">>

\* C5: an integer colour identifier goes into the escape sequence unchanged:
\* for every integer n, color(text, fg=n) contains "38;5;n" and
\* color(text, bg=n) contains "48;5;n".
C5_IntegerPassedThrough ==
    (pc = "done" /\ ~bold /\ ~underline) =>
        /\ (fg.t = "int" /\ bg = None) =>
              Contains(color_result, <<"3", "8", ";", "5", ";">> \o IntStr(fg.n))
        /\ (bg.t = "int" /\ fg = None) =>
              Contains(color_result, <<"4", "8", ";", "5", ";">> \o IntStr(bg.n))

(***************************************************************************)
(* Properties of wrap (under SpecWrap)                                     *)
(***************************************************************************)
\* the lines of the text wrap returned; the empty text has none
WrapLines == IF wrap_result.val = <<>> THEN <<>> ELSE Split(wrap_result.val, NL)

RECURSIVE WordsOf(_, _)
\* the maximal runs of characters other than whitespace, in order
WordsOf(s, cur) ==
    IF s = <<>> THEN (IF cur = <<>> THEN <<>> ELSE <<cur>>)
    ELSE IF Head(s) \in Whitespace
         THEN (IF cur = <<>> THEN <<>> ELSE <<cur>>) \o WordsOf(Tail(s), <<>>)
         ELSE WordsOf(Tail(s), Append(cur, Head(s)))

\* the indentation, then one word and nothing else
IsIndentedWord(line) ==
    /\ Len(line) > indent
    /\ \A k \in 1..Len(line) : (line[k] = " ") <=> (k <= indent)

IsBlankText(s) == \A k \in 1..Len(s) : s[k] \in Whitespace

\* C7 as claimed: for every text, the empty and the whitespace-only ones
\* included, every line of the output begins with exactly indent spaces
\* (an empty output has no line).
C7_ExactIndentOnEveryLine ==
    (pc = "done") =>
        \A k \in DOMAIN WrapLines :
            /\ StartsWith(WrapLines[k], Spaces(indent))
            /\ Len(WrapLines[k]) > indent => WrapLines[k][indent + 1] # " "

\* C7 as amended: for a text with a character other than whitespace every
\* line of the output begins with indent spaces followed by more text, and
\* every line after the first with exactly indent spaces (the first keeps
\* the leading whitespace of the text after its indentation); for an empty
\* or whitespace-only text the output is the empty string: no line at all.
C7_IndentOnEveryLineOfText ==
    (pc = "done") =>
        IF IsBlankText(to_string(wrap_text).s)
        THEN wrap_result.val = <<>>
        ELSE \A k \in DOMAIN WrapLines :
                /\ StartsWith(WrapLines[k], Spaces(indent))
                /\ Len(WrapLines[k]) > indent
                /\ k > 1 => WrapLines[k][indent + 1] # " "

\* two indented lines, the first with the text's own leading space kept
C7_Witness ==
    /\ pc = "done" /\ indent >= 1
    /\ Len(WrapLines) >= 2
    /\ Len(WrapLines[1]) > indent /\ WrapLines[1][indent + 1] = " "
    /\ StartsWith(WrapLines[2], Spaces(indent))

(***************************************************************************)
(* Properties of supports_ansi (under SpecAnsi)                            *)
(***************************************************************************)
\* the probe read the console mode after setting it and found the flag
ProbeConfirms ==
    n_get = 2 /\ n_set = 1 /\ HasBit(flags, ENABLE_VIRTUAL_TERMINAL_PROCESSING)

\* C8: supports_ansi() returns False whenever ANSI_COLORS_DISABLED is set to
\* a non-empty value, on every platform, whatever ANSICON and the console
\* are, and then the console mode is neither read nor changed; with the
\* variable unset it returns True off Windows, and on Windows True exactly
\* when ANSICON is there or the probe confirms virtual-terminal processing.
C8_DisabledWinsOverDetection ==
    (pc = "done") =>
        /\ Truthy(env_disabled) =>
              /\ ansi_result = "False"
              /\ n_get = 0 /\ n_set = 0 /\ console_mode = console_mode0
        /\ env_disabled = None =>
              /\ platform # "win32" => ansi_result = "True"
              /\ platform = "win32" =>
                    ((ansi_result = "True") <=> (ansicon \/ ProbeConfirms))

\* disabled by "0" on Windows with ANSICON there and a capable console
C8_Witness ==
    /\ pc = "done" /\ env_disabled = StrV(<<"0">>) /\ platform = "win32" /\ ansicon
    /\ set_outcome = "applied" /\ is_console /\ stdout_fd
    /\ ansi_result = "False" /\ n_get = 0

(***************************************************************************)
(* Properties of locale_escape (under SpecEscape)                          *)
(***************************************************************************)
\* C9: locale_escape is idempotent under a fixed encoding and error policy,
\* locale_escape(locale_escape(t)) == locale_escape(t), and neither call
\* raises.  Stated for the policies "replace" (the default) and "ignore",
\* under which the encode step cannot raise.
C9_EscapeIdempotent ==
    (errors # "strict" /\ pc \in {"done", "raised"}) =>
        /\ escaped.exc = ""
        /\ escaped_twice.exc = ""
        /\ escaped_twice.val = escaped.val

====
